---- MODULE Spec2Model ----
(***************************************************************************)
(* Lazy-sequence combinators of package adapters (src/adapters.go).        *)
(*                                                                         *)
(* A sequence is a Go range-over-func iterator: driving it calls the       *)
(* consumer (yield) once per element, and the consumer answers whether to  *)
(* continue.  One drive of one combinator over its source(s) is modelled   *)
(* statement by statement: pc is the position inside the combinator's      *)
(* closure, pos/pos2 count the elements the sources have produced, and log *)
(* records, in program order, every source visit, every call of a caller-  *)
(* supplied function and every consumer call of the current drive.         *)
(***************************************************************************)
EXTENDS Integers, Sequences, FiniteSets

\* Bounds of the model.
MaxLen == 3        \* longest source
MaxStop == 2       \* the consumer stops on its k-th call, k <= MaxStop (0: never)
MaxInner == 2      \* longest inner sequence a transform or a Flatten item holds
MaxItems == 2      \* longest source of Flatten

\* Element values.  The combinators are generic in the element type and never
\* inspect an element themselves; two values tell elements apart.
Vals == {1, 2}

RECURSIVE SeqsUpTo(_, _)
SeqsUpTo(S, k) ==
    IF k = 0 THEN {<<>>}
    ELSE LET shorter == SeqsUpTo(S, k - 1)
         IN  shorter \cup {Append(s, x) : s \in {t \in shorter : Len(t) = k - 1}, x \in S}

\* The sources a drive is run over: every list over Vals up to MaxLen.
Sources == SeqsUpTo(Vals, MaxLen)

\* Take/Skip limits: negative, zero, inside the source, beyond the source.
Counts == (0 - 1)..(MaxLen + 1)

\* The items Flatten's type switch tells apart.  len = -1 is a nil pointer.
Shapes ==
    [tag : {"seq", "list"}, len : {0, MaxInner}]
        \cup [tag : {"pseq", "plist"}, len : {0 - 1, 0, MaxInner}]
        \cup [tag : {"scalar", "other"}, len : {0}]

\* The i-th item of a Flatten source: its j-th inner element is 10*i + j, a
\* scalar is 10*i, so that every yielded element names the item it came from.
Contents(i, len) == [j \in 1..len |-> 10 * i + j]
MixedSources ==
    {[i \in 1..Len(t) |-> [tag |-> t[i].tag, nil |-> t[i].len < 0,
                           val |-> IF t[i].tag \in {"scalar", "other"} THEN 10 * i
                                   ELSE Contents(i, t[i].len)]]
        : t \in SeqsUpTo(Shapes, MaxItems)}

CountedOps == {"Take", "Take2", "Skip", "Skip2"}
KeyedOps == {"Filter2", "Map2", "Take2", "Skip2", "FlatMap2", "FilterMap2"}
\* Reduce is driven over a plain source or over Map(s, transform).
ReduceOps == {"Reduce", "ReduceMap"}
Ops ==
    {"Filter", "Filter2", "Map", "Map2", "Take", "Take2", "Skip", "Skip2", "Zip",
     "FlatMap", "FlatMap2", "Flatten", "FilterMap", "FilterMap2"} \cup ReduceOps

\* The caller-supplied function of each combinator, as a table the model can
\* enumerate: Filter's predicate is the set of values it accepts; Map's
\* transform is a function on Vals; FlatMap's transform gives, per value, the
\* length of the inner sequence it returns; FilterMap's transform gives the
\* result, 0 standing for a non-nil error; for Reduce it holds the initial value,
\* the reducer g (a sum, or the order-sensitive 2*acc + x) and a transform f.
FnsOf(o) ==
    CASE o \in {"Filter", "Filter2"} -> SUBSET Vals
      [] o \in ReduceOps -> [f : [Vals -> Vals], g : {"sum", "poly"}, init : {0, 1}]
      [] o \in {"Map", "Map2"} -> [Vals -> Vals]
      [] o \in {"FlatMap", "FlatMap2"} -> [Vals -> 0..MaxInner]
      [] o \in {"FilterMap", "FilterMap2"} -> [Vals -> {0} \cup Vals]
      [] OTHER -> {0}

VARIABLES
    op,        \* the combinator whose closure is being driven
    src,       \* the elements source s (s1 of Zip) produces, in order
    src2,      \* the elements source s2 of Zip produces
    n,         \* the n of Take/Skip
    fn,        \* the caller-supplied predicate or transform (see FnsOf)
    stopAt,    \* the consumer returns false on its stopAt-th call (0: never)
    pc,        \* position in the closure
    pos,       \* elements s (s1) has produced so far in this drive
    pos2,      \* elements s2 has produced so far in this drive
    count,     \* the local count of Take/Skip
    h1, h2,    \* the pull handles of Zip: none, open, closed
    deferred,  \* the deferred calls of Zip's closure, in the order registered
    v1, v2,    \* the locals v1, v2 of Zip's loop
    inner,     \* the inner sequence FlatMap/Flatten is unrolling
    ipos,      \* elements of inner visited so far
    acc,       \* the local `result` of Reduce (Map has a local of that name too)
    log,       \* events of this drive, in program order
    prev       \* the finished earlier drive over the same source(s), or NoDrive

params == <<src, src2, n, fn>>
zipv == <<pos2, h1, h2, deferred, v1, v2>>
innerv == <<inner, ipos>>
vars == <<op, stopAt, params, pc, pos, count, zipv, innerv, acc, log, prev>>

NoDrive == [op |-> "none", stopAt |-> 0, log |-> <<>>]

Init ==
    /\ op \in Ops
    /\ src \in (IF op = "Flatten" THEN MixedSources ELSE Sources)
    /\ src2 \in (IF op = "Zip" THEN Sources ELSE {<<>>})
    /\ n \in (IF op \in CountedOps THEN Counts ELSE {0})
    /\ fn \in FnsOf(op)
    /\ stopAt \in (IF op \in ReduceOps THEN {0} ELSE 0..MaxStop)
    /\ pc = "start"
    /\ pos = 0
    /\ pos2 = 0
    /\ count = 0
    /\ h1 = "none"
    /\ h2 = "none"
    /\ deferred = <<>>
    /\ v1 = 0
    /\ v2 = 0
    /\ inner = <<>>
    /\ ipos = 0
    /\ acc = 0
    /\ log = <<>>
    /\ prev = NoDrive

----------------------------------------------------------------------------
\* The event log.

Visit(v) == <<"visit", v, TRUE>>       \* the source hands v to the loop body
End == <<"end", 0, TRUE>>              \* the source returns: it is exhausted
Call(v, r) == <<"call", v, r>>         \* pred/transform is called with v, gives r
Yield(v, r) == <<"yield", v, r>>       \* the consumer is called with v, answers r
Next1(v, ok) == <<"next1", v, ok>>     \* next1() returns (v, ok)
Next2(v, ok) == <<"next2", v, ok>>     \* next2() returns (v, ok)
Stop(h) == <<h, 0, TRUE>>              \* stop1() or stop2() is called
Reduced(v, r) == <<"reduce", v, r>>    \* result = reducer(result, v) gives r
Return(r) == <<"return", r, TRUE>>     \* Reduce returns r

Yields(l) == SelectSeq(l, LAMBDA e : e[1] = "yield")
Calls == Len(Yields(log))
OutOf(l) == [i \in 1..Len(Yields(l)) |-> Yields(l)[i][2]]
Out == OutOf(log)

\* The consumer: continue, except on the stopAt-th call.
Consumer(c) == c # stopAt

\* A keyed source yields (index, value) pairs, as slices.All does.
Item(i) == IF op \in KeyedOps THEN <<i - 1, src[i]>> ELSE src[i]

\* `for v := range s`, entered: s is invoked and starts from its first element.
RangeBegin ==
    /\ pc = "start"
    /\ pos' = 0
    /\ pc' = "loop"

\* `for v := range s` when s has no further element: s either returns, which
\* ends the loop and the closure, or searches forever without returning (an
\* unbounded source none of whose later elements reach the loop).
RangeEnd ==
    /\ op \notin {"Zip"} \cup ReduceOps
    /\ pc = "loop"
    /\ pos >= Len(src)
    /\ \/ pc' = "done" /\ log' = Append(log, End)
       \/ pc' = "spin" /\ log' = log
    /\ UNCHANGED <<op, stopAt, params, pos, count, zipv, innerv, acc, prev>>

\* The loop body is entered with the source's next element.
RangeNext ==
    /\ pc = "loop"
    /\ pos < Len(src)
    /\ pos' = pos + 1

\* What every loop step of a single-source combinator leaves alone.
Frame == UNCHANGED <<op, stopAt, params, zipv, acc, prev>>

----------------------------------------------------------------------------
\* The caller-supplied functions, computed from fn.

Pred(v) == v \in fn
Pred2(k, v) == ((k + v) % 2) + 1 \in fn
Transform(v) == fn[v]
Transform2(k, v) == <<k + 1, fn[v]>>
\* FlatMap's transform: the inner sequence for v holds fn[v] elements, 10*v + j.
InnerOf(v) == [j \in 1..fn[v] |-> 10 * v + j]
InnerOf2(k, v) == [j \in 1..fn[v] |-> <<k, 10 * v + j>>]
\* FilterMap's transform: (result, err).
Fallible(v) == [result |-> fn[v], ok |-> fn[v] # 0]
Fallible2(k, v) == [result |-> <<k, fn[v]>>, ok |-> fn[v] # 0]

----------------------------------------------------------------------------
\* The combinators' closures, one definition per function of adapters.go.

\* Filter with the test of pred inverted: a faulty variant.
FilterInverted ==
    /\ op = "Filter"
    /\ \/ RangeBegin /\ UNCHANGED log
       \/ /\ RangeNext
          /\ LET v == Item(pos + 1)
                 r == Consumer(Calls + 1)
             IN  IF ~Pred(v)
                 THEN /\ log' = log \o <<Visit(v), Call(v, FALSE), Yield(v, r)>>
                      /\ pc' = IF r THEN "loop" ELSE "done"
                 ELSE /\ log' = log \o <<Visit(v), Call(v, TRUE)>>
                      /\ pc' = "loop"
    /\ UNCHANGED <<count, innerv>>
    /\ Frame

Filter ==
    /\ op = "Filter"
    /\ \/ RangeBegin /\ UNCHANGED log
       \/ /\ RangeNext
          /\ LET v == Item(pos + 1)
                 r == Consumer(Calls + 1)
             IN  IF Pred(v)
                 THEN /\ log' = log \o <<Visit(v), Call(v, TRUE), Yield(v, r)>>
                      /\ pc' = IF r THEN "loop" ELSE "done"
                 ELSE /\ log' = log \o <<Visit(v), Call(v, FALSE)>>
                      /\ pc' = "loop"
    /\ UNCHANGED <<count, innerv>>
    /\ Frame

Filter2 ==
    /\ op = "Filter2"
    /\ \/ RangeBegin /\ UNCHANGED log
       \/ /\ RangeNext
          /\ LET kv == Item(pos + 1)
                 r == Consumer(Calls + 1)
             IN  IF Pred2(kv[1], kv[2])
                 THEN /\ log' = log \o <<Visit(kv), Call(kv, TRUE), Yield(kv, r)>>
                      /\ pc' = IF r THEN "loop" ELSE "done"
                 ELSE /\ log' = log \o <<Visit(kv), Call(kv, FALSE)>>
                      /\ pc' = "loop"
    /\ UNCHANGED <<count, innerv>>
    /\ Frame

\* Map calling yield without testing its result: a faulty variant.
MapIgnoresStop ==
    /\ op = "Map"
    /\ \/ RangeBegin /\ UNCHANGED log
       \/ /\ RangeNext
          /\ LET v == Item(pos + 1)
                 result == Transform(v)
                 r == Consumer(Calls + 1)
             IN  /\ log' = log \o <<Visit(v), Call(v, result), Yield(result, r)>>
                 /\ pc' = "loop"
    /\ UNCHANGED <<count, innerv>>
    /\ Frame

Map ==
    /\ op = "Map"
    /\ \/ RangeBegin /\ UNCHANGED log
       \/ /\ RangeNext
          /\ LET v == Item(pos + 1)
                 result == Transform(v)
                 r == Consumer(Calls + 1)
             IN  /\ log' = log \o <<Visit(v), Call(v, result), Yield(result, r)>>
                 /\ pc' = IF r THEN "loop" ELSE "done"
    /\ UNCHANGED <<count, innerv>>
    /\ Frame

Map2 ==
    /\ op = "Map2"
    /\ \/ RangeBegin /\ UNCHANGED log
       \/ /\ RangeNext
          /\ LET kv == Item(pos + 1)
                 kv2 == Transform2(kv[1], kv[2])
                 r == Consumer(Calls + 1)
             IN  /\ log' = log \o <<Visit(kv), Call(kv, kv2), Yield(kv2, r)>>
                 /\ pc' = IF r THEN "loop" ELSE "done"
    /\ UNCHANGED <<count, innerv>>
    /\ Frame

\* Take with the limit test off by one (count > n): a faulty variant.
TakeOffByOne ==
    /\ op = "Take"
    /\ \/ RangeBegin /\ count' = 0 /\ UNCHANGED log
       \/ /\ RangeNext
          /\ LET v == Item(pos + 1)
                 r == Consumer(Calls + 1)
             IN  IF count > n
                 THEN /\ log' = Append(log, Visit(v))
                      /\ pc' = "done"
                      /\ count' = count
                 ELSE /\ log' = log \o <<Visit(v), Yield(v, r)>>
                      /\ pc' = IF r THEN "loop" ELSE "done"
                      /\ count' = IF r THEN count + 1 ELSE count
    /\ UNCHANGED innerv
    /\ Frame

\* Take with count declared outside the closure, so that it outlives a drive:
\* a faulty variant.
TakeKeepsCount ==
    /\ op = "Take"
    /\ \/ RangeBegin /\ count' = count /\ UNCHANGED log
       \/ /\ RangeNext
          /\ LET v == Item(pos + 1)
                 r == Consumer(Calls + 1)
             IN  IF count >= n
                 THEN /\ log' = Append(log, Visit(v))
                      /\ pc' = "done"
                      /\ count' = count
                 ELSE /\ log' = log \o <<Visit(v), Yield(v, r)>>
                      /\ pc' = IF r THEN "loop" ELSE "done"
                      /\ count' = IF r THEN count + 1 ELSE count
    /\ UNCHANGED innerv
    /\ Frame

Take ==
    /\ op = "Take"
    /\ \/ RangeBegin /\ count' = 0 /\ UNCHANGED log
       \/ /\ RangeNext
          /\ LET v == Item(pos + 1)
                 r == Consumer(Calls + 1)
             IN  IF count >= n
                 THEN /\ log' = Append(log, Visit(v))
                      /\ pc' = "done"
                      /\ count' = count
                 ELSE /\ log' = log \o <<Visit(v), Yield(v, r)>>
                      /\ pc' = IF r THEN "loop" ELSE "done"
                      /\ count' = IF r THEN count + 1 ELSE count
    /\ UNCHANGED innerv
    /\ Frame

Take2 ==
    /\ op = "Take2"
    /\ \/ RangeBegin /\ count' = 0 /\ UNCHANGED log
       \/ /\ RangeNext
          /\ LET kv == Item(pos + 1)
                 r == Consumer(Calls + 1)
             IN  IF count >= n
                 THEN /\ log' = Append(log, Visit(kv))
                      /\ pc' = "done"
                      /\ count' = count
                 ELSE /\ log' = log \o <<Visit(kv), Yield(kv, r)>>
                      /\ pc' = IF r THEN "loop" ELSE "done"
                      /\ count' = IF r THEN count + 1 ELSE count
    /\ UNCHANGED innerv
    /\ Frame

\* Skip that calls yield without testing its result: a faulty variant.
SkipIgnoresStop ==
    /\ op = "Skip"
    /\ \/ RangeBegin /\ count' = 0 /\ UNCHANGED log
       \/ /\ RangeNext
          /\ LET v == Item(pos + 1)
                 r == Consumer(Calls + 1)
             IN  IF count >= n
                 THEN /\ log' = log \o <<Visit(v), Yield(v, r)>>
                      /\ pc' = "loop"
                      /\ count' = count + 1
                 ELSE /\ log' = Append(log, Visit(v))
                      /\ pc' = "loop"
                      /\ count' = count + 1
    /\ UNCHANGED innerv
    /\ Frame

\* Skip with the limit test off by one (count > n): a faulty variant.
SkipOffByOne ==
    /\ op = "Skip"
    /\ \/ RangeBegin /\ count' = 0 /\ UNCHANGED log
       \/ /\ RangeNext
          /\ LET v == Item(pos + 1)
                 r == Consumer(Calls + 1)
             IN  IF count > n
                 THEN /\ log' = log \o <<Visit(v), Yield(v, r)>>
                      /\ pc' = IF r THEN "loop" ELSE "done"
                      /\ count' = IF r THEN count + 1 ELSE count
                 ELSE /\ log' = Append(log, Visit(v))
                      /\ pc' = "loop"
                      /\ count' = count + 1
    /\ UNCHANGED innerv
    /\ Frame

Skip ==
    /\ op = "Skip"
    /\ \/ RangeBegin /\ count' = 0 /\ UNCHANGED log
       \/ /\ RangeNext
          /\ LET v == Item(pos + 1)
                 r == Consumer(Calls + 1)
             IN  IF count >= n
                 THEN /\ log' = log \o <<Visit(v), Yield(v, r)>>
                      /\ pc' = IF r THEN "loop" ELSE "done"
                      /\ count' = IF r THEN count + 1 ELSE count
                 ELSE /\ log' = Append(log, Visit(v))
                      /\ pc' = "loop"
                      /\ count' = count + 1
    /\ UNCHANGED innerv
    /\ Frame

Skip2 ==
    /\ op = "Skip2"
    /\ \/ RangeBegin /\ count' = 0 /\ UNCHANGED log
       \/ /\ RangeNext
          /\ LET kv == Item(pos + 1)
                 r == Consumer(Calls + 1)
             IN  IF count >= n
                 THEN /\ log' = log \o <<Visit(kv), Yield(kv, r)>>
                      /\ pc' = IF r THEN "loop" ELSE "done"
                      /\ count' = IF r THEN count + 1 ELSE count
                 ELSE /\ log' = Append(log, Visit(kv))
                      /\ pc' = "loop"
                      /\ count' = count + 1
    /\ UNCHANGED innerv
    /\ Frame

\* FilterMap ending the drive when transform fails: a faulty variant.
FilterMapStopsOnError ==
    /\ op = "FilterMap"
    /\ \/ RangeBegin /\ UNCHANGED log
       \/ /\ RangeNext
          /\ LET v == Item(pos + 1)
                 t == Fallible(v)
                 r == Consumer(Calls + 1)
             IN  IF t.ok
                 THEN /\ log' = log \o <<Visit(v), Call(v, t.ok), Yield(t.result, r)>>
                      /\ pc' = IF r THEN "loop" ELSE "done"
                 ELSE /\ log' = log \o <<Visit(v), Call(v, t.ok)>>
                      /\ pc' = "done"
    /\ UNCHANGED <<count, innerv>>
    /\ Frame

FilterMap ==
    /\ op = "FilterMap"
    /\ \/ RangeBegin /\ UNCHANGED log
       \/ /\ RangeNext
          /\ LET v == Item(pos + 1)
                 t == Fallible(v)
                 r == Consumer(Calls + 1)
             IN  IF t.ok
                 THEN /\ log' = log \o <<Visit(v), Call(v, t.ok), Yield(t.result, r)>>
                      /\ pc' = IF r THEN "loop" ELSE "done"
                 ELSE /\ log' = log \o <<Visit(v), Call(v, t.ok)>>
                      /\ pc' = "loop"
    /\ UNCHANGED <<count, innerv>>
    /\ Frame

FilterMap2 ==
    /\ op = "FilterMap2"
    /\ \/ RangeBegin /\ UNCHANGED log
       \/ /\ RangeNext
          /\ LET kv == Item(pos + 1)
                 t == Fallible2(kv[1], kv[2])
                 r == Consumer(Calls + 1)
             IN  IF t.ok
                 THEN /\ log' = log \o <<Visit(kv), Call(kv, t.ok), Yield(t.result, r)>>
                      /\ pc' = IF r THEN "loop" ELSE "done"
                 ELSE /\ log' = log \o <<Visit(kv), Call(kv, t.ok)>>
                      /\ pc' = "loop"
    /\ UNCHANGED <<count, innerv>>
    /\ Frame

\* The inner loops of FlatMap, FlatMap2 and Flatten:
\* `for innerV := range inner { if !yield(innerV) { return } }`.
\* The inner loop going on to the next outer element after one inner element:
\* a faulty variant.
InnerNextOnlyFirst ==
    /\ pc = "inner"
    /\ ipos < Len(inner)
    /\ ipos' = ipos + 1
    /\ LET r == Consumer(Calls + 1)
       IN  /\ log' = Append(log, Yield(inner[ipos + 1], r))
           /\ pc' = IF r THEN "loop" ELSE "done"
    /\ UNCHANGED <<pos, inner>>

\* The inner loop leaving with `break` instead of `return`: a faulty variant.
InnerNextBreaks ==
    /\ pc = "inner"
    /\ ipos < Len(inner)
    /\ ipos' = ipos + 1
    /\ LET r == Consumer(Calls + 1)
       IN  /\ log' = Append(log, Yield(inner[ipos + 1], r))
           /\ pc' = IF r THEN "inner" ELSE "loop"
    /\ UNCHANGED <<pos, inner>>

InnerNext ==
    /\ pc = "inner"
    /\ ipos < Len(inner)
    /\ ipos' = ipos + 1
    /\ LET r == Consumer(Calls + 1)
       IN  /\ log' = Append(log, Yield(inner[ipos + 1], r))
           /\ pc' = IF r THEN "inner" ELSE "done"
    /\ UNCHANGED <<pos, inner>>

\* The inner loop ends: the outer loop goes on to its next element.
InnerEnd ==
    /\ pc = "inner"
    /\ ipos >= Len(inner)
    /\ pc' = "loop"
    /\ UNCHANGED <<pos, innerv, log>>

FlatMap ==
    /\ op = "FlatMap"
    /\ \/ RangeBegin /\ UNCHANGED <<innerv, log>>
       \/ /\ RangeNext
          /\ LET v == Item(pos + 1)
                 innerSeq == InnerOf(v)
             IN  /\ log' = log \o <<Visit(v), Call(v, Len(innerSeq))>>
                 /\ inner' = innerSeq
          /\ ipos' = 0
          /\ pc' = "inner"
       \/ InnerNext
       \/ InnerEnd
    /\ UNCHANGED count
    /\ Frame

FlatMap2 ==
    /\ op = "FlatMap2"
    /\ \/ RangeBegin /\ UNCHANGED <<innerv, log>>
       \/ /\ RangeNext
          /\ LET kv == Item(pos + 1)
                 innerSeq == InnerOf2(kv[1], kv[2])
             IN  /\ log' = log \o <<Visit(kv), Call(kv, Len(innerSeq))>>
                 /\ inner' = innerSeq
          /\ ipos' = 0
          /\ pc' = "inner"
       \/ InnerNext
       \/ InnerEnd
    /\ UNCHANGED count
    /\ Frame

\* Flatten ending the drive at an item of no recognised shape: a faulty variant.
FlattenAbortsOnOther ==
    /\ op = "Flatten"
    /\ \/ RangeBegin /\ UNCHANGED <<innerv, log>>
       \/ /\ RangeNext
          /\ LET item == src[pos + 1]
                 r == Consumer(Calls + 1)
             IN  CASE item.tag = "seq" ->
                        /\ inner' = item.val /\ ipos' = 0 /\ pc' = "inner"
                        /\ log' = Append(log, Visit(item))
                   [] item.tag = "pseq" ->
                        /\ log' = Append(log, Visit(item))
                        /\ IF ~item.nil
                           THEN inner' = item.val /\ ipos' = 0 /\ pc' = "inner"
                           ELSE pc' = "loop" /\ UNCHANGED innerv
                   [] item.tag = "list" ->
                        /\ inner' = item.val /\ ipos' = 0 /\ pc' = "inner"
                        /\ log' = Append(log, Visit(item))
                   [] item.tag = "plist" ->
                        /\ log' = Append(log, Visit(item))
                        /\ IF ~item.nil
                           THEN inner' = item.val /\ ipos' = 0 /\ pc' = "inner"
                           ELSE pc' = "loop" /\ UNCHANGED innerv
                   [] item.tag = "scalar" ->
                        /\ log' = log \o <<Visit(item), Yield(item.val, r)>>
                        /\ pc' = IF r THEN "loop" ELSE "done"
                        /\ UNCHANGED innerv
                   [] OTHER ->
                        /\ log' = Append(log, Visit(item))
                        /\ pc' = "done"
                        /\ UNCHANGED innerv
       \/ InnerNext
       \/ InnerEnd
    /\ UNCHANGED count
    /\ Frame

Flatten ==
    /\ op = "Flatten"
    /\ \/ RangeBegin /\ UNCHANGED <<innerv, log>>
       \/ /\ RangeNext
          /\ LET item == src[pos + 1]
                 r == Consumer(Calls + 1)
             IN  CASE item.tag = "seq" ->
                        /\ inner' = item.val /\ ipos' = 0 /\ pc' = "inner"
                        /\ log' = Append(log, Visit(item))
                   [] item.tag = "pseq" ->
                        /\ log' = Append(log, Visit(item))
                        /\ IF ~item.nil
                           THEN inner' = item.val /\ ipos' = 0 /\ pc' = "inner"
                           ELSE pc' = "loop" /\ UNCHANGED innerv
                   [] item.tag = "list" ->
                        /\ inner' = item.val /\ ipos' = 0 /\ pc' = "inner"
                        /\ log' = Append(log, Visit(item))
                   [] item.tag = "plist" ->
                        /\ log' = Append(log, Visit(item))
                        /\ IF ~item.nil
                           THEN inner' = item.val /\ ipos' = 0 /\ pc' = "inner"
                           ELSE pc' = "loop" /\ UNCHANGED innerv
                   [] item.tag = "scalar" ->
                        /\ log' = log \o <<Visit(item), Yield(item.val, r)>>
                        /\ pc' = IF r THEN "loop" ELSE "done"
                        /\ UNCHANGED innerv
                   [] OTHER ->
                        /\ log' = Append(log, Visit(item))
                        /\ pc' = "loop"
                        /\ UNCHANGED innerv
       \/ InnerNext
       \/ InnerEnd
    /\ UNCHANGED count
    /\ Frame

----------------------------------------------------------------------------
\* func Zip(s1, s2)

Registered(d) == \E i \in DOMAIN deferred : deferred[i] = d

\* `return` in Zip's closure: the deferred calls run, last registered first;
\* stop1/stop2 release their handle.  l is the log up to the return.
ZipReturn(l) ==
    /\ pc' = "done"
    /\ h1' = IF Registered("stop1") THEN "closed" ELSE h1
    /\ h2' = IF Registered("stop2") THEN "closed" ELSE h2
    /\ log' = l \o [i \in 1..Len(deferred) |-> Stop(deferred[Len(deferred) + 1 - i])]
    /\ deferred' = <<>>

\* Zip without `defer stop2()`: a faulty variant.
ZipStartNoDefer2 ==
    /\ pc = "start"
    /\ h1' = "open"
    /\ pos' = 0
    /\ h2' = "open"
    /\ pos2' = 0
    /\ deferred' = <<"stop1">>
    /\ pc' = "next1"
    /\ UNCHANGED <<v1, v2, log>>

\* next1, stop1 := iter.Pull(s1); next2, stop2 := iter.Pull(s2);
\* defer stop1(); defer stop2()
ZipStart ==
    /\ pc = "start"
    /\ h1' = "open"
    /\ pos' = 0
    /\ h2' = "open"
    /\ pos2' = 0
    /\ deferred' = <<"stop1", "stop2">>
    /\ pc' = "next1"
    /\ UNCHANGED <<v1, v2, log>>

\* Zip fetching the element after v1 from s1 ahead of time: a faulty variant.
ZipNext1Prefetch ==
    /\ pc = "next1"
    /\ \/ /\ pos < Len(src)
          /\ LET k == IF pos + 1 < Len(src) THEN 2 ELSE 1
             IN  /\ pos' = pos + k
                 /\ log' = log \o [i \in 1..k |-> Next1(src[pos + i], TRUE)]
          /\ v1' = src[pos + 1]
          /\ pc' = "next2"
          /\ UNCHANGED <<pos2, h1, h2, deferred, v2>>
       \/ /\ pos >= Len(src)
          /\ ZipReturn(Append(log, Next1(0, FALSE)))
          /\ UNCHANGED <<pos, pos2, v1, v2>>
       \/ /\ pos >= Len(src)
          /\ pc' = "spin"
          /\ UNCHANGED <<pos, zipv, log>>

\* v1, ok1 := next1(); if !ok1 { return }
ZipNext1 ==
    /\ pc = "next1"
    /\ \/ /\ pos < Len(src)
          /\ pos' = pos + 1
          /\ v1' = src[pos + 1]
          /\ log' = Append(log, Next1(src[pos + 1], TRUE))
          /\ pc' = "next2"
          /\ UNCHANGED <<pos2, h1, h2, deferred, v2>>
       \/ /\ pos >= Len(src)
          /\ ZipReturn(Append(log, Next1(0, FALSE)))
          /\ UNCHANGED <<pos, pos2, v1, v2>>
       \/ /\ pos >= Len(src)
          /\ pc' = "spin"
          /\ UNCHANGED <<pos, zipv, log>>

\* Zip pairing v1 with the zero value once s2 is exhausted: a faulty variant.
ZipNext2Pads ==
    /\ pc = "next2"
    /\ \/ /\ pos2 < Len(src2)
          /\ pos2' = pos2 + 1
          /\ v2' = src2[pos2 + 1]
          /\ log' = Append(log, Next2(src2[pos2 + 1], TRUE))
          /\ pc' = "yield"
          /\ UNCHANGED <<pos, h1, h2, deferred, v1>>
       \/ /\ pos2 >= Len(src2)
          /\ v2' = 0
          /\ log' = Append(log, Next2(0, FALSE))
          /\ pc' = "yield"
          /\ UNCHANGED <<pos, pos2, h1, h2, deferred, v1>>

\* v2, ok2 := next2(); if !ok2 { return }
ZipNext2 ==
    /\ pc = "next2"
    /\ \/ /\ pos2 < Len(src2)
          /\ pos2' = pos2 + 1
          /\ v2' = src2[pos2 + 1]
          /\ log' = Append(log, Next2(src2[pos2 + 1], TRUE))
          /\ pc' = "yield"
          /\ UNCHANGED <<pos, h1, h2, deferred, v1>>
       \/ /\ pos2 >= Len(src2)
          /\ ZipReturn(Append(log, Next2(0, FALSE)))
          /\ UNCHANGED <<pos, pos2, v1, v2>>
       \/ /\ pos2 >= Len(src2)
          /\ pc' = "spin"
          /\ UNCHANGED <<pos, zipv, log>>

\* Zip calling yield without testing its result: a faulty variant.
ZipYieldUnchecked ==
    /\ pc = "yield"
    /\ LET r == Consumer(Calls + 1)
       IN  /\ pc' = "next1"
           /\ log' = Append(log, Yield(<<v1, v2>>, r))
           /\ UNCHANGED <<h1, h2, deferred>>
    /\ UNCHANGED <<pos, pos2, v1, v2>>

\* if !yield(v1, v2) { return }
ZipYield ==
    /\ pc = "yield"
    /\ LET r == Consumer(Calls + 1)
           l == Append(log, Yield(<<v1, v2>>, r))
       IN  IF r
           THEN /\ pc' = "next1"
                /\ log' = l
                /\ UNCHANGED <<h1, h2, deferred>>
           ELSE ZipReturn(l)
    /\ UNCHANGED <<pos, pos2, v1, v2>>

Zip ==
    /\ op = "Zip"
    /\ ZipStart \/ ZipNext1 \/ ZipNext2 \/ ZipYield
    /\ UNCHANGED <<op, stopAt, params, count, innerv, acc, prev>>

----------------------------------------------------------------------------
\* func Reduce(s, initial, reducer)

\* The caller's g and f (see FnsOf).
Reducer(a, x) == IF fn.g = "sum" THEN a + x ELSE 2 * a + x
Mapped(v) == fn.f[v]

\* What a step of Reduce leaves alone.
ReduceFrame == UNCHANGED <<op, stopAt, params, count, zipv, innerv, prev>>

\* `for v := range s` ends; `return result`.  A source that never returns
\* keeps Reduce from returning.
ReduceReturn ==
    /\ pc = "loop"
    /\ pos >= Len(src)
    /\ \/ pc' = "done" /\ log' = log \o <<End, Return(acc)>>
       \/ pc' = "spin" /\ log' = log
    /\ UNCHANGED <<pos, acc>>

\* Reduce(s, initial, func(a, x) { return g(a, f(x)) })
Reduce ==
    /\ op = "Reduce"
    /\ \/ RangeBegin /\ acc' = fn.init /\ UNCHANGED log
       \/ /\ RangeNext
          /\ LET v == Item(pos + 1)
                 r == Reducer(acc, Mapped(v))
             IN  /\ acc' = r
                 /\ log' = log \o <<Visit(v), Reduced(v, r)>>
          /\ pc' = "loop"
       \/ ReduceReturn
    /\ ReduceFrame

\* Reduce over Map without the transform applied: a faulty variant.
ReduceMapUnmapped ==
    /\ op = "ReduceMap"
    /\ \/ RangeBegin /\ acc' = fn.init /\ UNCHANGED log
       \/ /\ RangeNext
          /\ LET v == Item(pos + 1)
                 r == Reducer(acc, v)
             IN  /\ acc' = r
                 /\ log' = log \o <<Visit(v), Yield(v, TRUE), Reduced(v, r)>>
          /\ pc' = "loop"
       \/ ReduceReturn
    /\ ReduceFrame

\* Reduce(Map(s, f), initial, g): Reduce's range loop drives Map's closure,
\* whose yield is Reduce's loop body; that body always continues.
ReduceMap ==
    /\ op = "ReduceMap"
    /\ \/ RangeBegin /\ acc' = fn.init /\ UNCHANGED log
       \/ /\ RangeNext
          /\ LET v == Item(pos + 1)
                 mapped == Mapped(v)
                 r == Reducer(acc, mapped)
             IN  /\ acc' = r
                 /\ log' = log \o <<Visit(v), Call(v, mapped), Yield(mapped, TRUE),
                                    Reduced(mapped, r)>>
          /\ pc' = "loop"
       \/ ReduceReturn
    /\ ReduceFrame

----------------------------------------------------------------------------
\* The caller drives a second closure over the same source(s) once the first
\* drive has returned: the same combinator value again, or, after Take(s, n),
\* Skip(s, n) over the same s and n (and the reverse), or Reduce with the
\* fused reducer after Reduce over Map (and the reverse).  Nothing is reset
\* here; whatever the new drive starts from is what its closure sets up.
Companions(o) ==
    CASE o = "Take" -> {"Take", "Skip"}
      [] o = "Reduce" -> {"ReduceMap"}
      [] o = "ReduceMap" -> {"Reduce"}
      [] o = "Skip" -> {"Skip", "Take"}
      [] o = "Take2" -> {"Take2", "Skip2"}
      [] o = "Skip2" -> {"Skip2", "Take2"}
      [] OTHER -> {o}

Redrive ==
    /\ pc = "done"
    /\ prev = NoDrive
    /\ op \in CountedOps \cup {"Zip"} \cup ReduceOps
    /\ prev' = [op |-> op, stopAt |-> stopAt, log |-> log]
    /\ op' \in Companions(op)
    /\ stopAt' \in (IF op \in ReduceOps THEN {0} ELSE 0..MaxStop)
    /\ pc' = "start"
    /\ log' = <<>>
    /\ UNCHANGED <<params, pos, count, zipv, innerv, acc>>

Next ==
    \/ Filter \/ Filter2 \/ Map \/ Map2
    \/ Take \/ Take2 \/ Skip \/ Skip2
    \/ Zip
    \/ FlatMap \/ FlatMap2 \/ Flatten
    \/ FilterMap \/ FilterMap2
    \/ Reduce \/ ReduceMap
    \/ RangeEnd
    \/ Redrive

Spec == Init /\ [][Next]_vars

----------------------------------------------------------------------------
\* Properties.

Min(a, b) == IF a < b THEN a ELSE b
Max(a, b) == IF a > b THEN a ELSE b

\* The consumer returned false at some call recorded in l.
Stopped(l) == \E i \in DOMAIN l : l[i][1] = "yield" /\ ~l[i][3]
\* Every consumer call recorded in l returned true.
Continued(l) == ~Stopped(l)
\* The source (or a pull handle) reported exhaustion at l[i].
Exhaustion(e) == e[1] = "end" \/ (e[1] \in {"next1", "next2"} /\ ~e[3])

\* C1: while Take(s, n) or Take2(s, n) is driven, the source is never asked
\* for an element beyond its n-th: it has produced at most max(n, 0) elements.
C1_TakeVisitsAtMostN ==
    (op \in {"Take", "Take2"} /\ pc # "start") => pos <= Max(n, 0)

\* C2: in every combinator, once the consumer has returned false the drive
\* has returned and the consumer is not called again in that drive; nor is it
\* called after the source has signalled exhaustion.
C2_StopAndExhaustionEndTheDrive ==
    \A i \in DOMAIN log :
        ((log[i][1] = "yield" /\ ~log[i][3]) \/ Exhaustion(log[i]))
            => /\ pc = "done"
               /\ \A j \in (i + 1)..Len(log) : log[j][1] # "yield"

C2_Witness ==
    /\ op = "Skip" /\ pc = "done" /\ n >= 1
    /\ Stopped(log)
    /\ pos < Len(src)

\* C3: every drive of Zip that has returned has released both pull handles,
\* whichever exit path it took; none of its handles is open afterwards.
C3_ZipReleasesHandles ==
    (op = "Zip" /\ (pc = "done" \/ (pc = "start" /\ prev # NoDrive)))
        => h1 = "closed" /\ h2 = "closed"

C3_Witness ==
    /\ op = "Zip" /\ pc = "done"
    /\ Stopped(log)
    /\ pos < Len(src) /\ pos2 < Len(src2)
    /\ h1 = "closed" /\ h2 = "closed"

\* C4: when Zip's consumer stops on its k-th pair, at the end of the drive
\* each source has produced exactly k elements.
C4_ZipStopLeavesSources ==
    (op = "Zip" /\ pc = "done")
        => \A k \in 1..Calls : ~Yields(log)[k][3] => pos = k /\ pos2 = k

C4_Witness ==
    /\ op = "Zip" /\ pc = "done"
    /\ Calls = 2 /\ Stopped(log)
    /\ Len(src) > 2 /\ Len(src2) > 2
    /\ pos = 2 /\ pos2 = 2

\* C5: Zip driven to completion by a consumer that always continues yields
\* exactly min(|A|, |B|) pairs, the i-th being (A[i], B[i]).
C5_ZipPairsUpToShorter ==
    (op = "Zip" /\ pc = "done" /\ Continued(log))
        => Out = [i \in 1..Min(Len(src), Len(src2)) |-> <<src[i], src2[i]>>]

C5_Witness ==
    /\ op = "Zip" /\ pc = "done" /\ stopAt = 0
    /\ Len(src) = 3 /\ Len(src2) = 2
    /\ Out = <<<<src[1], src2[1]>>, <<src[2], src2[2]>>>>

\* C6: in a drive of Zip the requests to the two sources alternate, A first,
\* and the consumer gets pair i right after both i-th requests succeeded and
\* before any later request: the requests and consumer calls of the drive read
\* next1, next2, yield, next1, next2, yield, ..., and a failed request ends them.
ZipSteps == SelectSeq(log, LAMBDA e : e[1] \in {"next1", "next2", "yield"})
C6_ZipAlternates ==
    op = "Zip" =>
        \A j \in DOMAIN ZipSteps :
            LET e == ZipSteps[j]
            IN  /\ e[1] = <<"next1", "next2", "yield">>[((j - 1) % 3) + 1]
                /\ e[1] = "yield" =>
                       /\ ZipSteps[j - 2][3] /\ ZipSteps[j - 1][3]
                       /\ e[2] = <<ZipSteps[j - 2][2], ZipSteps[j - 1][2]>>
                /\ (e[1] # "yield" /\ ~e[3]) => j = Len(ZipSteps)

C6_Witness ==
    /\ op = "Zip" /\ pc = "next2"
    /\ Calls = 2
    /\ pos = 3 /\ pos2 = 2

\* C7: in FlatMap, FlatMap2 and Flatten, when the consumer returns false while
\* an inner sequence or list is unrolled, the drive has returned: nothing more
\* is visited, transform is not called again and nothing more is yielded.
C7_InnerStopEndsOuterDrive ==
    op \in {"FlatMap", "FlatMap2", "Flatten"} =>
        \A i \in DOMAIN log :
            (log[i][1] = "yield" /\ ~log[i][3]) => pc = "done" /\ i = Len(log)

C7_Witness ==
    /\ op = "FlatMap" /\ pc = "done"
    /\ Stopped(log)
    /\ ipos < Len(inner)
    /\ pos < Len(src)

\* C8: Take(s, n), driven by a consumer that always continues, returns once
\* the n-th element has been delivered without needing anything further from
\* s: from then on the drive has returned or can take a step.
C8_TakeReturnsAfterNth ==
    (op = "Take" /\ pc # "start" /\ stopAt = 0 /\ n >= 1 /\ Calls = n)
        => (pc = "done" \/ ENABLED Next)

\* C9: for a finite source, Take(s, n) driven to completion yields exactly the
\* first min(max(n, 0), |s|) elements of s, in order.
C9_TakeYieldsPrefix ==
    (op = "Take" /\ pc = "done" /\ Continued(log))
        => Out = SubSeq(src, 1, Min(Max(n, 0), Len(src)))

C9_Witness ==
    /\ op = "Take" /\ pc = "done" /\ stopAt = 0
    /\ n = 2 /\ Len(src) = 3
    /\ Out = <<src[1], src[2]>>

\* C10: for 0 <= n <= |s|, the output of Take(s, n) driven to completion
\* followed by the output of Skip(s, n), driven separately to completion over
\* the same s, is the full output of s.
C10_TakeThenSkipIsSource ==
    (/\ prev.op = "Take" /\ Continued(prev.log)
     /\ op = "Skip" /\ pc = "done" /\ Continued(log)
     /\ 0 <= n /\ n <= Len(src))
        => OutOf(prev.log) \o Out = src

C10_Witness ==
    /\ prev.op = "Take" /\ Continued(prev.log)
    /\ op = "Skip" /\ pc = "done" /\ Continued(log)
    /\ n = 1 /\ Len(src) = 3
    /\ Len(OutOf(prev.log)) = 1 /\ Len(Out) = 2

\* The elements the source hands over, in order (pairs for a keyed source).
Items == [i \in 1..Len(src) |-> Item(i)]

\* C11: Skip(s, n) and Skip2(s, n) drop exactly the first n elements by
\* position and yield every later element unchanged and in order (all of s
\* when n <= 0); the first n elements are visited without a consumer call.
C11_SkipDropsFirstN ==
    (op \in {"Skip", "Skip2"} /\ pc # "start")
        => /\ Out = [i \in 1..Max(0, pos - Max(n, 0)) |-> Item(i + Max(n, 0))]
           /\ (pc = "done" /\ Continued(log)) => pos = Len(src)

C11_Witness ==
    /\ op = "Skip" /\ pc = "done" /\ stopAt = 0
    /\ n = 2 /\ Len(src) = 3
    /\ pos = 3
    /\ Out = <<src[3]>>

\* C12: Filter(s, p) (and Filter2) driven to completion yields exactly the
\* elements of s that satisfy p, in source order, and at no time more elements
\* than s has produced.
C12_FilterYieldsMatching ==
    /\ (op \in {"Filter", "Filter2"} /\ pc # "start") => Calls <= pos
    /\ (op = "Filter" /\ pc = "done" /\ Continued(log))
           => Out = SelectSeq(src, Pred)
    /\ (op = "Filter2" /\ pc = "done" /\ Continued(log))
           => Out = SelectSeq(Items, LAMBDA kv : Pred2(kv[1], kv[2]))

C12_Witness ==
    /\ op = "Filter" /\ pc = "done" /\ stopAt = 0
    /\ src = <<1, 2, 1>> /\ fn = {1}
    /\ Out = <<1, 1>>

\* The left fold of the first k elements of s from acc, with g after f.
RECURSIVE FoldLeft(_, _, _)
FoldLeft(a, s, k) ==
    IF k = 0 THEN a ELSE Reducer(FoldLeft(a, s, k - 1), Mapped(s[k]))

\* The value a finished Reduce drive returned.
ResultOf(l) == SelectSeq(l, LAMBDA e : e[1] = "return")[1][2]

\* C13: for a finite source, Reduce(Map(s, f), acc, g) returns the same value
\* as Reduce(s, acc, (a, x) => g(a, f(x))); that value is the left-to-right
\* fold from acc, which is acc itself on an empty source.
C13_MapReduceFusion ==
    /\ (op \in ReduceOps /\ pc = "done") => acc = FoldLeft(fn.init, src, Len(src))
    /\ (prev.op = "ReduceMap" /\ op = "Reduce" /\ pc = "done")
           => ResultOf(prev.log) = acc

C13_Witness ==
    /\ prev.op = "ReduceMap" /\ op = "Reduce" /\ pc = "done"
    /\ src = <<1, 2, 2>>
    /\ fn.g = "poly" /\ fn.init = 1 /\ fn.f[1] = 2 /\ fn.f[2] = 1
    /\ ResultOf(prev.log) = 19
    /\ acc = 19

\* The inner sequences of the first k outer elements, concatenated.
RECURSIVE FlatOut(_)
FlatOut(k) == IF k = 0 THEN <<>> ELSE FlatOut(k - 1) \o InnerOf(src[k])

\* The calls of pred/transform recorded in l.
CallsIn(l) == SelectSeq(l, LAMBDA e : e[1] = "call")

\* C14: FlatMap(s, transform) driven to completion yields the inner sequences
\* concatenated in outer-element order; when transform is called for an outer
\* element, every element of the earlier inner sequences has been yielded, and
\* an empty inner sequence adds nothing.
C14_FlatMapConcatenates ==
    op = "FlatMap" =>
        /\ \A p \in DOMAIN log :
               log[p][1] = "call"
                   => OutOf(SubSeq(log, 1, p))
                          = FlatOut(Len(CallsIn(SubSeq(log, 1, p))) - 1)
        /\ (pc = "done" /\ Continued(log)) => Out = FlatOut(Len(src))

C14_Witness ==
    /\ op = "FlatMap" /\ pc = "done" /\ stopAt = 0
    /\ src = <<1, 2, 1>>
    /\ fn[1] = 2 /\ fn[2] = 0
    /\ Out = <<11, 12, 11, 12>>

\* What an item of a Flatten source stands for: its elements, in order.
ItemOut(item) ==
    CASE item.tag \in {"seq", "list"} -> item.val
      [] item.tag \in {"pseq", "plist"} -> IF item.nil THEN <<>> ELSE item.val
      [] item.tag = "scalar" -> <<item.val>>
      [] OTHER -> <<>>

RECURSIVE FlattenOut(_)
FlattenOut(k) == IF k = 0 THEN <<>> ELSE FlattenOut(k - 1) \o ItemOut(src[k])

\* C15: Flatten yields, in place and in source order, the elements of each
\* nested sequence, referenced nested sequence, list, referenced list and the
\* bare scalars; a nil reference yields nothing; an item of another shape is
\* skipped and the items after it are still processed.
C15_FlattenUnrollsInPlace ==
    (op = "Flatten" /\ pc # "start") =>
        /\ Calls <= Len(FlattenOut(pos))
        /\ Out = SubSeq(FlattenOut(pos), 1, Calls)
        /\ (pc = "loop" /\ Continued(log)) => Out = FlattenOut(pos)
        /\ (pc = "done" /\ Continued(log)) => pos = Len(src) /\ Out = FlattenOut(Len(src))

C15_Witness ==
    /\ op = "Flatten" /\ pc = "done" /\ stopAt = 0
    /\ Len(src) = 2
    /\ src[1].tag = "other"
    /\ src[2].tag = "plist" /\ ~src[2].nil
    /\ Out = <<21, 22>>

\* The results of the transform calls that succeed on the first k elements.
RECURSIVE FilterMapOut(_)
FilterMapOut(k) ==
    IF k = 0 THEN <<>>
    ELSE LET t == IF op = "FilterMap2" THEN Fallible2(Item(k)[1], Item(k)[2])
                  ELSE Fallible(Item(k))
         IN  FilterMapOut(k - 1) \o (IF t.ok THEN <<t.result>> ELSE <<>>)

\* C16: FilterMap (and FilterMap2) yields, in source order, exactly the results
\* of the transform calls that succeeded on the elements visited; a failed
\* call gives no consumer call, and the drive goes on to the later elements.
C16_FilterMapDropsFailures ==
    (op \in {"FilterMap", "FilterMap2"} /\ pc # "start") =>
        /\ Out = FilterMapOut(pos)
        /\ (pc = "done" /\ Continued(log)) => pos = Len(src)

C16_Witness ==
    /\ op = "FilterMap" /\ pc = "done" /\ stopAt = 0
    /\ src = <<1, 2, 1>>
    /\ fn[1] = 2 /\ fn[2] = 0
    /\ Out = <<2, 2>>

\* C17: in Filter, Map and FilterMap and their keyed variants, the predicate
\* or transform is called exactly once for each source element visited, in
\* source order and right when that element is reached, and is not called for
\* any element after the one on which the consumer returned false.
C17_CallbackOncePerVisit ==
    (op \in {"Filter", "Filter2", "Map", "Map2", "FilterMap", "FilterMap2"}
        /\ pc # "start") =>
        /\ [i \in 1..Len(CallsIn(log)) |-> CallsIn(log)[i][2]]
               = [i \in 1..pos |-> Item(i)]
        /\ \A p \in DOMAIN log :
               /\ log[p][1] = "call" => (p > 1 /\ log[p - 1] = Visit(log[p][2]))
               /\ (log[p][1] = "yield" /\ ~log[p][3]) => p = Len(log)

C17_Witness ==
    /\ op = "Map" /\ pc = "done"
    /\ Stopped(log)
    /\ pos = 2 /\ Len(src) = 3
    /\ Len(CallsIn(log)) = 2

\* C18: when a drive of Zip has returned, B has given as many elements as
\* pairs were delivered and A that many or one more; one more exactly when the
\* drive ended because B was exhausted, and that element of A is in no pair.
\* During the drive neither side is more than one element ahead of the pairs.
C18_ZipPendingElements ==
    (op = "Zip" /\ pc # "start") =>
        /\ Calls <= pos2 /\ pos2 <= pos /\ pos <= Calls + 1
        /\ pc = "done" =>
               /\ pos2 = Calls
               /\ pos = Calls + 1 <=> \E p \in DOMAIN log : log[p] = Next2(0, FALSE)
               /\ \A i \in 1..Calls : Out[i] = <<src[i], src2[i]>>

C18_Witness ==
    /\ op = "Zip" /\ pc = "done"
    /\ Len(src) = 3 /\ Len(src2) = 1
    /\ pos = 2 /\ pos2 = 1
    /\ Calls = 1

\* C19: Take's and Skip's count and Zip's pull handles belong to one drive:
\* driving the same Take(s, n), Skip(s, n) or Zip(A, B) value a second time
\* gives the same output as the first time; if the first drive was stopped
\* early the second still starts from the first element and is not cut short.
C19_RedriveRepeatsOutput ==
    (prev.op = op /\ op \in CountedOps \cup {"Zip"} /\ pc = "done") =>
        LET first == OutOf(prev.log)
        IN  /\ stopAt = prev.stopAt => Out = first
            /\ \A i \in 1..Min(Len(first), Len(Out)) : Out[i] = first[i]
            /\ (Stopped(prev.log) /\ Continued(log)) => Len(Out) >= Len(first)

C19_Witness ==
    /\ prev.op = "Take" /\ op = "Take" /\ pc = "done"
    /\ Stopped(prev.log) /\ stopAt = 0
    /\ n = 2 /\ Len(src) = 3
    /\ Len(OutOf(prev.log)) = 1
    /\ Out = <<src[1], src[2]>>

====
